---- MODULE Spec2Model ----
(***************************************************************************)
(* State-machine model of the news agent (src/news_agent_v2.py) and of the *)
(* Flask front end that drives it (src/app.py).                            *)
(*                                                                         *)
(* Text is modelled as a sequence of tokens.  A token stands for one word  *)
(* (or one separator) of the Python string; the tables below record, for   *)
(* each token, what the code's string operations see in it.  Cyrillic      *)
(* words of the source are written in Latin transliteration:               *)
(*   "putin"  = the keyword at news_agent_v2.py:47 and :212                *)
(*   "Putin"  = the same word with a capital Cyrillic letter               *)
(*   "rossii" = a word that contains the two-letter keyword of line 46     *)
(*   "ii"     = that two-letter keyword                                    *)
(*   "krizis" = the keyword at :48 and :212                                *)
(*   "nauka"  = :49, "sport" = :50, "proryv" = :213, and so on; the        *)
(*   categories are "tehnologii", "politika", "ekonomika", "nauka",        *)
(*   "sport" (lines 46-50) and the default "raznoe" (line 195); the        *)
(*   title default of line 376 is the token "untitled".                    *)
(* Importance is counted in tenths (0.8 is 8, 1.0 is 10).                  *)
(***************************************************************************)
EXTENDS Integers, Sequences, FiniteSets, TLC

\* proc     "starting", "running" or "exited": the web process
\* agent    TRUE when app.py holds a constructed NewsAgentV2
\* news, analyses, stats   the three tables, as the shared connection sees them
\* today    the calendar date, now   datetime.now(), advanced by every event
\* last     the last call: its arguments, the values of its local variables
\*          and what it returned
\* model_name   the agent's field self.model_name ("" while there is no agent)
\* installed    the models the inference service advertises, in list order
\* runs         the invocations in progress whose statements can interleave:
\*              for each its position in the code and its local variables
\* active_tasks the dict active_tasks of app.py
\* cursor       the rows the shared cursor self.cursor still has to hand out
VARIABLES proc, agent, news, analyses, stats, today, now, last,
          model_name, installed, runs, active_tasks, cursor

vars == <<proc, agent, news, analyses, stats, today, now, last,
          model_name, installed, runs, active_tasks, cursor>>

\* ------------------------------------------------------------------ bounds
MaxClock == 3
MaxDay == 2
MaxStored == 52

\* --------------------------------------------------------- generic helpers
Min(a, b) == IF a < b THEN a ELSE b
Max(a, b) == IF a > b THEN a ELSE b
Range(s) == {s[i] : i \in DOMAIN s}

\* SQL NULL in a text column, a dict key that is absent, NULL in a time column
NULL == <<"<NULL>">>
Absent == <<"<absent>">>
NoTime == 0

\* Python s[:n] on a sequence of length len: the number of elements kept
PySliceEnd(len, n) == IF n >= 0 THEN Min(n, len) ELSE Max(len + n, 0)

\* SQL "LIMIT n" applied to a result of length len: a negative n is no limit
SqlLimit(len, n) == IF n < 0 THEN len ELSE Min(n, len)

\* ------------------------------------------------------------ text model
\* Python str.lower(): Unicode aware
PyLowerTok(t) ==
    CASE t = "Putin" -> "putin"
      [] t = "AI" -> "ai"
      [] t = "Nauka" -> "nauka"
      [] OTHER -> t

\* SQLite LOWER(): ASCII letters only, Cyrillic capitals stay as they are
SqlLowerTok(t) ==
    CASE t = "AI" -> "ai"
      [] OTHER -> t

PyLower(txt) == [i \in DOMAIN txt |-> PyLowerTok(txt[i])]
SqlLower(txt) == [i \in DOMAIN txt |-> SqlLowerTok(txt[i])]

\* the words that occur inside a token as a substring (the token itself too)
Within(t) ==
    CASE t = "rossii" -> {"rossii", "ii"}
      [] OTHER -> {t}

\* Python "kw in txt" for a one-word kw
Contains(txt, kw) == \E i \in DOMAIN txt : kw \in Within(txt[i])

\* Python "q in txt" / SQL "txt LIKE %q%" for a text q: q occurs as a
\* contiguous run; the empty q occurs in every text
Occurs(q, txt) ==
    \/ q = <<>>
    \/ Len(q) = 1 /\ Contains(txt, q[1])
    \/ /\ Len(q) > 1
       /\ \E k \in 0..(Len(txt) - Len(q)) :
              \A i \in 1..Len(q) : txt[k + i] = q[i]

IsSpace(t) == t \in {" ", "\n"}

RECURSIVE LStrip(_)
LStrip(txt) ==
    IF txt # <<>> /\ IsSpace(Head(txt)) THEN LStrip(Tail(txt)) ELSE txt

RECURSIVE RStrip(_)
RStrip(txt) ==
    IF txt # <<>> /\ IsSpace(txt[Len(txt)])
    THEN RStrip(SubSeq(txt, 1, Len(txt) - 1))
    ELSE txt

\* Python str.strip()
Strip(txt) == RStrip(LStrip(txt))

\* number of characters of a token
CharLen(t) ==
    CASE t \in {" ", "\n", ",", "k", "x"} -> 1
      [] t = ". " -> 2
      [] t \in {"AI", "ai", "ii"} -> 2
      [] t = "untitled" -> 13
      [] t = "body60" -> 60
      [] t = "analysis40" -> 40
      [] t = "[err:timeout]" -> 17
      [] t = "[err:api]" -> 26
      [] t = "[err:exc]" -> 40
      [] OTHER -> 5

RECURSIVE TextLen(_)
TextLen(txt) == IF txt = <<>> THEN 0 ELSE CharLen(Head(txt)) + TextLen(Tail(txt))

\* ------------------------------------------------------------ classifier
\* self.settings["categories"], in dict (insertion) order
Categories == <<"tehnologii", "politika", "ekonomika", "nauka", "sport">>

CategoryKeywords(c) ==
    CASE c = "tehnologii" -> {"ii", "iskusstvennyi intellekt", "ai", "neiroset",
                        "chat", "gpt", "programmirovanie", "it"}
      [] c = "politika" -> {"putin", "pravitelstvo", "ssha", "ukrain",
                            "sankci", "vybory", "politika"}
      [] c = "ekonomika" -> {"rubl", "dollar", "birzha", "inflyaciya",
                           "ekonomika", "rynok", "krizis"}
      [] c = "nauka" -> {"nauka", "otkrytie", "issledovanie", "uchenye",
                           "kosmos", "medicina"}
      [] c = "sport" -> {"sport", "futbol", "hokkei", "chempionat", "olimpiada"}
      [] OTHER -> {}

DefaultCategory == "raznoe"

\* mutant: the loop does not return at the first hit, the last category
\* that has a keyword in the text wins
RECURSIVE FirstCategory_last(_, _)
FirstCategory_last(txt, i) ==
    IF i > Len(Categories) THEN DefaultCategory
    ELSE LET later == FirstCategory_last(txt, i + 1)
         IN  IF later # DefaultCategory THEN later
             ELSE IF \E kw \in CategoryKeywords(Categories[i]) : Contains(txt, kw)
                  THEN Categories[i]
                  ELSE DefaultCategory

RECURSIVE FirstCategory(_, _)
FirstCategory(txt, i) ==
    IF i > Len(Categories) THEN DefaultCategory
    ELSE IF \E kw \in CategoryKeywords(Categories[i]) : Contains(txt, kw)
         THEN Categories[i]
         ELSE FirstCategory(txt, i + 1)

categorize_text(txt) == FirstCategory(PyLower(txt), 1)

\* the configured feeds, in list order: the source names
rss_sources == <<"Lenta", "RIA", "TASS", "RBC">>

SourceWeight(s) ==
    CASE s \in {"RIA", "TASS"} -> 8
      [] s = "Lenta" -> 7
      [] s = "RBC" -> 6
      [] OTHER -> 5

important_words == {"putin", "voina", "krizis", "ssha", "kitai",
                    "proryv", "revolyuciya", "katastrofa", "terakt"}

CategoryWeight(c) ==
    CASE c = "politika" -> 3
      [] c \in {"ekonomika", "tehnologii"} -> 2
      [] c = "nauka" -> 1
      [] OTHER -> 0

\* mutant: the loop over important_words has no break, every word found in
\* the title adds 0.2
ImportanceSum_perword(title, source, category) ==
    SourceWeight(source)
    + 2 * Cardinality({w \in important_words : Contains(PyLower(title), w)})
    + CategoryWeight(category)

ImportanceSum(title, source, category) ==
    SourceWeight(source)
    + (IF \E w \in important_words : Contains(PyLower(title), w) THEN 2 ELSE 0)
    + CategoryWeight(category)

\* mutant: the sum is returned as it is
calculate_importance_unclamped(title, source, category) ==
    ImportanceSum(title, source, category)

calculate_importance(title, source, category) ==
    Min(ImportanceSum(title, source, category), 10)

\* hashlib.md5 of the concatenated string: equal exactly for equal strings
generate_hash(txt) == txt

\* ----------------------------------------------------------------- feeds
\* entry.get(key, default) on a feed entry
Get(v, default) == IF v = Absent THEN default ELSE v

\* a feed entry; a field the feed does not carry is Absent (published: 0)
Entry(link, title, summary, published) ==
    [link |-> link, title |-> title, summary |-> summary, published |-> published]

EntPutin == Entry(<<"u1">>, <<"Putin">>, <<"body60">>, 2)
EntPutinSp == Entry(<<"u1">>, <<" ", "Putin">>, <<"body60">>, 2)
EntAI == Entry(<<"u2">>, <<"AI">>, <<>>, 1)
EntPlain == Entry(<<"u3">>, <<"x">>, <<"body60", " ">>, 0)
EntNoTitle == Entry(<<"u4">>, Absent, Absent, 3)
EntRossii == Entry(Absent, <<"rossii">>, <<"body60">>, 1)

\* what one source yields: its entries, and where fetching or processing it
\* raises (-1: feedparser.parse raises; 0: nothing raises; k > 0: handling
\* the k-th entry raises before its insert)
Src(entries, raiseAt) == [entries |-> entries, raiseAt |-> raiseAt]

FeedA == <<Src(<<EntPutin, EntAI>>, 0), Src(<<EntPutin>>, 0),
           Src(<<>>, 0), Src(<<EntNoTitle, EntPlain, EntAI>>, 0)>>
FeedB == <<Src(<<EntPlain>>, -1), Src(<<EntPutinSp, EntPutinSp>>, 0),
           Src(<<EntAI, EntNoTitle>>, 1), Src(<<EntRossii, EntPutin>>, 0)>>
FeedC == <<Src(<<EntAI, EntPlain>>, 0), Src(<<EntRossii, EntNoTitle>>, 0),
           Src(<<EntPutin>>, 0), Src(<<EntPutinSp, EntPutin>>, 2)>>

Feeds == {FeedA, FeedB, FeedC}

\* limit_per_source values (negative: Python slices from the end)
Limits == {-1, 1, 2}

\* ---------------------------------------------------------------- store
\* datetime.now().isoformat() as a sort key of the published column
IsoPublished(t) == 10 + t

HashStored(rows, h) == \E i \in DOMAIN rows : rows[i].hash = h

\* the UNIQUE constraint on news.hash
UniqueViolation(rows, h) == \E i \in DOMAIN rows : rows[i].hash = h

ZeroStats == [news_collected |-> 0, news_analyzed |-> 0, analyses_made |-> 0]

\* COALESCE((SELECT col FROM stats WHERE date = d), 0)
StatsGet(st, d, col) == IF d \in DOMAIN st THEN st[d][col] ELSE 0

\* INSERT OR REPLACE INTO stats (date, col) VALUES (d, v): the row of d is
\* replaced, the columns that are not named take their DEFAULT 0
StatsReplace(st, d, col, v) ==
    [x \in (DOMAIN st) \cup {d} |->
        IF x = d THEN [ZeroStats EXCEPT ![col] = v] ELSE st[x]]

\* ------------------------------------------------------------- ingestion
EntryHash(e) == generate_hash(Get(e.link, <<>>) \o Get(e.title, <<>>))

\* the row of one entry, stored under the hash h; its field "entry" is not
\* a column: it records the link and the title the entry had in the feed
RowOf(rows, e, source, t, h) ==
    LET title == Strip(Get(e.title, <<"untitled">>))
        category == categorize_text(title)
    IN  [id |-> Len(rows) + 1,
         hash |-> h,
         title |-> title,
         content |-> Strip(Get(e.summary, <<>>)),
         summary |-> NULL,
         source |-> source,
         url |-> Get(e.link, <<>>),
         category |-> category,
         keywords |-> NULL,
         importance |-> calculate_importance(title, source, category),
         published |-> IF e.published = 0 THEN IsoPublished(t) ELSE e.published,
         collected_at |-> t,
         analyzed_at |-> NoTime,
         entry |-> [link |-> Get(e.link, <<>>), title |-> Get(e.title, <<>>)]]

\* mutant: the stored hash also covers the collection time
NewRow_hash_time(rows, e, source, t) ==
    RowOf(rows, e, source, t, generate_hash(EntryHash(e) \o <<ToString(t)>>))

\* mutant: the stored hash also covers the source name
NewRow_hash_source(rows, e, source, t) ==
    RowOf(rows, e, source, t, generate_hash(EntryHash(e) \o <<source>>))

\* the INSERT INTO news of lines 386-400
NewRow(rows, e, source, t) == RowOf(rows, e, source, t, EntryHash(e))

\* mutant: an entry that is already stored is counted as collected too
RECURSIVE ProcessEntries_countall(_, _, _, _, _, _, _, _)
ProcessEntries_countall(rows, entries, i, n, source, raiseAt, t, count) ==
    IF i > n THEN [rows |-> rows, count |-> count, raised |-> FALSE]
    ELSE IF raiseAt = i THEN [rows |-> rows, count |-> count, raised |-> TRUE]
    ELSE IF HashStored(rows, EntryHash(entries[i]))
         THEN ProcessEntries_countall(rows, entries, i + 1, n, source, raiseAt, t,
                                      count + 1)
    ELSE IF UniqueViolation(rows, NewRow(rows, entries[i], source, t).hash)
         THEN [rows |-> rows, count |-> count, raised |-> TRUE]
    ELSE ProcessEntries_countall(Append(rows, NewRow(rows, entries[i], source, t)),
                                 entries, i + 1, n, source, raiseAt, t, count + 1)

\* the loop over feed.entries[:limit_per_source] of one source
RECURSIVE ProcessEntries(_, _, _, _, _, _, _, _)
ProcessEntries(rows, entries, i, n, source, raiseAt, t, count) ==
    IF i > n THEN [rows |-> rows, count |-> count, raised |-> FALSE]
    ELSE IF raiseAt = i THEN [rows |-> rows, count |-> count, raised |-> TRUE]
    ELSE IF HashStored(rows, EntryHash(entries[i]))
         THEN ProcessEntries(rows, entries, i + 1, n, source, raiseAt, t, count)
    ELSE IF UniqueViolation(rows, NewRow(rows, entries[i], source, t).hash)
         THEN [rows |-> rows, count |-> count, raised |-> TRUE]
    ELSE ProcessEntries(Append(rows, NewRow(rows, entries[i], source, t)),
                        entries, i + 1, n, source, raiseAt, t, count + 1)

\* mutant: the try block encloses the loop, the first source that raises
\* ends the run
RECURSIVE ProcessSources_abort(_, _, _, _, _, _, _)
ProcessSources_abort(rows, feed, s, limit, t, total, visited) ==
    IF s > Len(rss_sources)
    THEN [rows |-> rows, total |-> total, visited |-> visited]
    ELSE IF feed[s].raiseAt = -1
         THEN [rows |-> rows, total |-> total, visited |-> Append(visited, s)]
    ELSE IF feed[s].entries = <<>>
         THEN ProcessSources_abort(rows, feed, s + 1, limit, t, total, Append(visited, s))
    ELSE LET r == ProcessEntries(rows, feed[s].entries, 1,
                                 PySliceEnd(Len(feed[s].entries), limit),
                                 rss_sources[s], feed[s].raiseAt, t, 0)
         IN  IF r.raised
             THEN [rows |-> r.rows, total |-> total + r.count,
                   visited |-> Append(visited, s)]
             ELSE ProcessSources_abort(r.rows, feed, s + 1, limit, t,
                                       total + r.count, Append(visited, s))

\* the loop over self.settings["rss_sources"]
RECURSIVE ProcessSources(_, _, _, _, _, _, _)
ProcessSources(rows, feed, s, limit, t, total, visited) ==
    IF s > Len(rss_sources)
    THEN [rows |-> rows, total |-> total, visited |-> visited]
    ELSE IF feed[s].raiseAt = -1 \/ feed[s].entries = <<>>
         THEN ProcessSources(rows, feed, s + 1, limit, t, total, Append(visited, s))
    ELSE LET r == ProcessEntries(rows, feed[s].entries, 1,
                                 PySliceEnd(Len(feed[s].entries), limit),
                                 rss_sources[s], feed[s].raiseAt, t, 0)
         IN  ProcessSources(r.rows, feed, s + 1, limit, t, total + r.count,
                            Append(visited, s))

\* ------------------------------------------------------------- LLM client
\* what the inference service does with one generation request: a 200
\* answer with a text ("text"), with an empty text ("blank"), with a JSON
\* object that has no "response" ("nofield"), with "response": null
\* ("null"), with a body that is not JSON ("badjson"); another status
\* ("http"); no answer in time ("timeout"); a refused connection ("conn")
LlmOutcomes == {"text", "blank", "nofield", "null", "badjson", "http",
                "timeout", "conn"}

\* the body of a 200 answer: data.get("response", "")
LlmBody(o) ==
    IF o = "text"
    THEN <<" ", "kw111", ",", " ", "k", ",", ",", "analysis40", "\n", "\n",
           "kw222", "\n">>
    ELSE <<>>

\* re.sub(r'\n+', '\n', txt)
RECURSIVE CollapseNewlines(_)
CollapseNewlines(txt) ==
    IF Len(txt) < 2 THEN txt
    ELSE IF txt[1] = "\n" /\ txt[2] = "\n" THEN CollapseNewlines(Tail(txt))
    ELSE <<Head(txt)>> \o CollapseNewlines(Tail(txt))

\* the three strings of the form "[Oshibka: ...]" the method builds
IsSentinel(txt) == txt \in {<<"[err:api]">>, <<"[err:timeout]">>, <<"[err:exc]">>}

\* mutant: a status other than 200 hands the body to the caller as it is
call_llm_unmarked(o) ==
    CASE o \in {"text", "blank", "nofield", "http"} ->
             Strip(CollapseNewlines(Strip(LlmBody(o))))
      [] o = "timeout" -> <<"[err:timeout]">>
      [] OTHER -> <<"[err:exc]">>

call_llm(o) ==
    CASE o \in {"text", "blank", "nofield"} ->
             Strip(CollapseNewlines(Strip(LlmBody(o))))
      [] o = "http" -> <<"[err:api]">>
      [] o = "timeout" -> <<"[err:timeout]">>
      [] OTHER -> <<"[err:exc]">>

\* Python txt[:n], cut at a token boundary
RECURSIVE Truncate(_, _)
Truncate(txt, n) ==
    IF txt = <<>> \/ CharLen(Head(txt)) > n THEN <<>>
    ELSE <<Head(txt)>> \o Truncate(Tail(txt), n - CharLen(Head(txt)))

SummaryMaxLength == 150
SummaryMinText == 50
KeywordsMinText == 20
MaxKeywords == 5

summarize_text(txt, o) ==
    IF TextLen(txt) < SummaryMinText THEN txt
    ELSE Truncate(call_llm(o), SummaryMaxLength)

\* Python txt.split(','): the list of the pieces between the commas
RECURSIVE SplitComma(_, _)
SplitComma(txt, piece) ==
    IF txt = <<>> THEN <<piece>>
    ELSE IF Head(txt) = "," THEN <<piece>> \o SplitComma(Tail(txt), <<>>)
    ELSE SplitComma(Tail(txt), Append(piece, Head(txt)))

RECURSIVE KeepKeywords(_)
KeepKeywords(items) ==
    IF items = <<>> THEN <<>>
    ELSE LET item == Strip(Head(items))
         IN  IF item # <<>> /\ TextLen(item) > 1
             THEN <<item>> \o KeepKeywords(Tail(items))
             ELSE KeepKeywords(Tail(items))

extract_keywords(txt, o) ==
    IF TextLen(txt) < KeywordsMinText THEN <<>>
    ELSE LET kws == KeepKeywords(SplitComma(call_llm(o), <<>>))
         IN  SubSeq(kws, 1, Min(MaxKeywords, Len(kws)))

\* ", ".join(keywords)
RECURSIVE Join(_)
Join(items) ==
    IF items = <<>> THEN <<>>
    ELSE IF Len(items) = 1 THEN items[1]
    ELSE items[1] \o <<",", " ">> \o Join(Tail(items))

\* ------------------------------------------------------------- enrichment
\* ORDER BY importance DESC, published DESC; rows that tie keep rowid order
Before(a, b) ==
    \/ a.importance > b.importance
    \/ a.importance = b.importance /\ a.published > b.published
    \/ a.importance = b.importance /\ a.published = b.published /\ a.id < b.id

RECURSIVE OrderRows(_, _)
OrderRows(rows, ids) ==
    IF ids = {} THEN <<>>
    ELSE LET first == CHOOSE i \in ids : \A j \in ids \ {i} : Before(rows[i], rows[j])
         IN  <<first>> \o OrderRows(rows, ids \ {first})

\* mutant: the SELECT has no WHERE clause
SelectUnanalyzed_all(rows, limit) ==
    LET ordered == OrderRows(rows, DOMAIN rows)
    IN  SubSeq(ordered, 1, SqlLimit(Len(ordered), limit))

\* SELECT ... FROM news WHERE analyzed_at IS NULL ORDER BY ... LIMIT ?
SelectUnanalyzed(rows, limit) ==
    LET ordered == OrderRows(rows, {i \in DOMAIN rows : rows[i].analyzed_at = NoTime})
    IN  SubSeq(ordered, 1, SqlLimit(Len(ordered), limit))

\* what happens while one article is handled: the outcomes of the two
\* generation requests, and whether the UPDATE raises
ArticlePlan(sum, kw, raises) == [sum |-> sum, kw |-> kw, raises |-> raises]

ArticlePlans == {ArticlePlan("text", "text", FALSE),
                 ArticlePlan("timeout", "http", FALSE),
                 ArticlePlan("blank", "blank", FALSE),
                 ArticlePlan("http", "text", TRUE)}

EnrichLimits == {1, 2}

\* mutant: an empty keyword list is stored as NULL
UpdateAnalyzed_nullkw(rows, id, plan, t) ==
    LET r == rows[id]
        kws == extract_keywords(r.title \o <<" ">> \o r.content, plan.kw)
    IN  [rows EXCEPT ![id] =
            [r EXCEPT !.summary = summarize_text(r.title \o <<". ">> \o r.content, plan.sum),
                      !.keywords = IF kws = <<>> THEN NULL ELSE Join(kws),
                      !.analyzed_at = t]]

\* UPDATE news SET summary = ?, keywords = ?, analyzed_at = ? WHERE id = ?
UpdateAnalyzed(rows, id, plan, t) ==
    LET r == rows[id]
    IN  [rows EXCEPT ![id] =
            [r EXCEPT !.summary = summarize_text(r.title \o <<". ">> \o r.content, plan.sum),
                      !.keywords = Join(extract_keywords(r.title \o <<" ">> \o r.content, plan.kw)),
                      !.analyzed_at = t]]

\* mutant: analyzed_count is incremented before the article is handled
RECURSIVE AnalyzeArticles_countfirst(_, _, _, _, _, _)
AnalyzeArticles_countfirst(rows, articles, plans, p, t, done) ==
    IF p > Len(articles) THEN [rows |-> rows, done |-> done]
    ELSE IF plans[p].raises
         THEN AnalyzeArticles_countfirst(rows, articles, plans, p + 1, t,
                                         Append(done, articles[p]))
    ELSE AnalyzeArticles_countfirst(UpdateAnalyzed(rows, articles[p], plans[p], t),
                                    articles, plans, p + 1, t,
                                    Append(done, articles[p]))

\* mutant: the try block encloses the loop, the first article that raises
\* ends the batch
RECURSIVE AnalyzeArticles_abort(_, _, _, _, _, _)
AnalyzeArticles_abort(rows, articles, plans, p, t, done) ==
    IF p > Len(articles) THEN [rows |-> rows, done |-> done]
    ELSE IF plans[p].raises
         THEN [rows |-> rows, done |-> done]
    ELSE AnalyzeArticles_abort(UpdateAnalyzed(rows, articles[p], plans[p], t),
                               articles, plans, p + 1, t, Append(done, articles[p]))

\* the loop over the fetched articles
RECURSIVE AnalyzeArticles(_, _, _, _, _, _)
AnalyzeArticles(rows, articles, plans, p, t, done) ==
    IF p > Len(articles) THEN [rows |-> rows, done |-> done]
    ELSE IF plans[p].raises
         THEN AnalyzeArticles(rows, articles, plans, p + 1, t, done)
    ELSE AnalyzeArticles(UpdateAnalyzed(rows, articles[p], plans[p], t),
                         articles, plans, p + 1, t, Append(done, articles[p]))

\* ----------------------------------------------------------------- search
\* LOWER(col) LIKE '%q%': NULL matches nothing
Like(col, q) == col # NULL /\ Occurs(q, SqlLower(col))

Matches(r, q) ==
    \/ Like(r.title, q)
    \/ Like(r.content, q)
    \/ Like(<<r.category>>, q)
    \/ Like(r.keywords, q)

\* the dict search_news builds from one row
ResultDict(r) ==
    [title |-> r.title, content |-> r.content, summary |-> r.summary,
     source |-> r.source, url |-> r.url, category |-> r.category,
     keywords |-> r.keywords, published |-> r.published]

\* search_news(query, limit); fails: the SELECT raises, which the method
\* answers with the empty list
search_news(rows, query, limit, fails) ==
    IF fails THEN <<>>
    ELSE LET q == PyLower(query)
             ordered == OrderRows(rows, {i \in DOMAIN rows : Matches(rows[i], q)})
             n == SqlLimit(Len(ordered), limit)
         IN  [k \in 1..n |-> ResultDict(rows[ordered[k]])]

SearchCeiling == 50

\* limit = min(int(request.args.get('limit', 20)), 50)
ApiSearchLimit(arg) == Min(arg, SearchCeiling)

\* --------------------------------------------------------- topic analysis
TopicSearchLimit == 5
ContextArticles == 3

\* dict.get('summary') is truthy
HasSummary(d) == d.summary # NULL /\ d.summary # <<>>

\* the lines of the context block: for each of the first three results its
\* numbered title line, and its summary line when it has a summary
RECURSIVE ContextLines(_, _)
ContextLines(relevant, i) ==
    IF i > Min(ContextArticles, Len(relevant)) THEN <<>>
    ELSE <<[line |-> "title", index |-> i, title |-> relevant[i].title,
            source |-> relevant[i].source]>>
         \o (IF HasSummary(relevant[i])
             THEN <<[line |-> "summary", index |-> i, title |-> relevant[i].summary,
                     source |-> relevant[i].source]>>
             ELSE <<>>)
         \o ContextLines(relevant, i + 1)

NoRelevantNews == <<[line |-> "none", index |-> 0, title |-> <<>>, source |-> ""]>>

\* mutant: the context is embedded as it is, also when it is empty
PromptContext_bare(relevant) ==
    ContextLines(relevant, 1)

\* {context if context else "no relevant news"}
PromptContext(relevant) ==
    IF ContextLines(relevant, 1) = <<>> THEN NoRelevantNews
    ELSE ContextLines(relevant, 1)

\* what happens during one analyze_topic call: whether the SELECT of the
\* search raises, the outcomes of the two generation requests, and which
\* statement raises inside the try block ("none"; "generate": one of the
\* steps before the INSERT; "insert": the INSERT; "stats": the stats update)
TopicPlan(search, llm, kw, raiseAt) ==
    [search |-> search, llm |-> llm, kw |-> kw, raiseAt |-> raiseAt]

TopicPlans == {TopicPlan(FALSE, "text", "text", "none"),
               TopicPlan(FALSE, "text", "text", "generate"),
               TopicPlan(TRUE, "http", "conn", "none"),
               TopicPlan(FALSE, "blank", "blank", "none"),
               TopicPlan(FALSE, "text", "http", "insert"),
               TopicPlan(FALSE, "text", "text", "stats")}

Topics == {<<"politika">>, <<"body60">>}

\* INSERT INTO analyses (query, analysis, keywords, sources_used, created_at)
AnalysisRow(rows, topic, analysis, keywords, relevant, t) ==
    [id |-> Len(rows) + 1, query |-> topic, analysis |-> analysis,
     keywords |-> keywords, sources_used |-> Len(relevant), created_at |-> t]

\* the dict returned on the normal path
TopicResult(topic, analysis, keywords, relevant, t) ==
    [keys |-> {"topic", "analysis", "keywords", "relevant_news_count",
               "analysis_time_seconds", "success", "timestamp"},
     topic |-> topic, analysis |-> analysis, keywords |-> keywords,
     relevant_news_count |-> Len(relevant), success |-> TRUE,
     error |-> "", timestamp |-> t]

\* mutant: the except branch returns the error without flag and timestamp
TopicFailure_bare(topic, e, t) ==
    [keys |-> {"topic", "error"},
     topic |-> topic, analysis |-> NULL, keywords |-> <<>>,
     relevant_news_count |-> -1, success |-> TRUE,
     error |-> e, timestamp |-> NoTime]

\* the dict returned by the except branch
TopicFailure(topic, e, t) ==
    [keys |-> {"topic", "error", "success", "timestamp"},
     topic |-> topic, analysis |-> NULL, keywords |-> <<>>,
     relevant_news_count |-> -1, success |-> FALSE,
     error |-> e, timestamp |-> t]

\* ---------------------------------------------------------------- startup
\* what the environment answers while the module of app.py is loaded
StartupOutcomes == {"ok", "no_models", "http_error", "conn_error",
                    "other_error", "db_error", "import_error"}

\* the default of the constructor's parameter model_name; app.py passes none
DefaultModel == "llama3.1:8b"
NoModel == ""

\* the names a service may advertise
ModelNames == {"llama3.1:8b", "llama3.1:70b", "mistral:7b", "qwen2:7b",
               "gemma2:9b"}

\* "llama3.1" in name.lower()
HasFamily(name) == name \in {"llama3.1:8b", "llama3.1:70b"}

\* model_names[:3], the names joined into the string "available"
ShownModels == 3

\* for name in model_names: if "llama3.1" in name.lower(): ... break
RECURSIVE FirstWithFamily(_, _, _)
FirstWithFamily(names, i, otherwise) ==
    IF i > Len(names) THEN otherwise
    ELSE IF HasFamily(names[i]) THEN names[i]
    ELSE FirstWithFamily(names, i + 1, otherwise)

\* self.model_name after the model check of lines 143-167, for a 200 answer
\* that advertises the models "names"
FallbackModel(configured, names) ==
    IF names = <<>> \/ configured \in Range(names) THEN configured
    ELSE IF \E i \in 1..PySliceEnd(Len(names), ShownModels) : HasFamily(names[i])
         THEN FirstWithFamily(names, 1, configured)
         ELSE names[1]

\* NewsAgentV2.__init__ : "agent" when the object is constructed, "raise"
\* when an Exception leaves the constructor, "exit" when sys.exit(1) is called
check_ollama(o) ==
    CASE o \in {"ok", "no_models", "http_error"} -> "agent"
      [] o \in {"conn_error", "other_error"} -> "exit"
      [] OTHER -> "raise"

Serving == proc = "running"
Ready == proc = "running" /\ agent /\ now < MaxClock

NoCall == [op |-> "none"]

\* the two invocations that can overlap, and the state of one that has not
\* been started
Runs == {1, 2}
Idle == [kind |-> "none", pc |-> "none"]
NoRuns == [r \in Runs |-> Idle]

Init ==
    /\ proc = "starting"
    /\ agent = FALSE
    /\ news = <<>>
    /\ analyses = <<>>
    /\ stats = <<>>
    /\ today = 1
    /\ now = 0
    /\ last = NoCall
    /\ model_name = NoModel
    /\ installed = <<DefaultModel>>
    /\ runs = NoRuns
    /\ active_tasks = <<>>
    /\ cursor = <<>>

\* the module-level call init_agent() of app.py; SystemExit is not an
\* Exception, so "except Exception" lets it end the process
init_agent ==
    /\ proc = "starting"
    /\ \E o \in StartupOutcomes :
        LET r == IF o = "import_error" THEN "raise" ELSE check_ollama(o)
        IN  /\ agent' = (r = "agent")
            /\ proc' = IF r = "exit" THEN "exited" ELSE "running"
            /\ model_name' = IF r # "agent" THEN NoModel
                              ELSE IF o = "ok" THEN FallbackModel(DefaultModel, installed)
                              ELSE DefaultModel
            /\ last' = [op |-> "init_agent", outcome |-> o]
    /\ UNCHANGED <<news, analyses, stats, today, now, installed,
                   runs, active_tasks, cursor>>

collect_news ==
    /\ Ready
    /\ \E feed \in Feeds, limit \in Limits :
        LET r == ProcessSources(news, feed, 1, limit, now + 1, 0, <<>>)
        IN  /\ news' = r.rows
            /\ stats' = StatsReplace(stats, today, "news_collected",
                            StatsGet(stats, today, "news_collected") + r.total)
            /\ last' = [op |-> "collect_news", at |-> now + 1,
                        feed |-> feed, limit |-> limit,
                        total_collected |-> r.total, visited |-> r.visited,
                        date |-> today,
                        repeat |-> /\ last.op = "collect_news"
                                   /\ last.feed = feed
                                   /\ last.limit = limit]
    /\ now' = now + 1
    /\ UNCHANGED <<proc, agent, model_name, installed, analyses, today,
                   runs, active_tasks, cursor>>

analyze_news_articles ==
    /\ Ready
    /\ \E limit \in EnrichLimits :
        LET articles == SelectUnanalyzed(news, limit)
        IN  IF articles = <<>>
            THEN /\ last' = [op |-> "analyze_news_articles", at |-> now + 1,
                             limit |-> limit, date |-> today,
                             articles |-> <<>>, analyzed |-> <<>>,
                             raised |-> {}]
                 /\ UNCHANGED <<news, stats>>
            ELSE \E plans \in [1..Len(articles) -> ArticlePlans] :
                    LET r == AnalyzeArticles(news, articles, plans, 1, now + 1, <<>>)
                    IN  /\ news' = r.rows
                        /\ stats' = StatsReplace(stats, today, "news_analyzed",
                                StatsGet(stats, today, "news_analyzed") + Len(r.done))
                        /\ last' = [op |-> "analyze_news_articles", at |-> now + 1,
                                    limit |-> limit, date |-> today,
                                    articles |-> articles, analyzed |-> r.done,
                                    raised |-> {k \in DOMAIN plans : plans[k].raises}]
    /\ now' = now + 1
    /\ UNCHANGED <<proc, agent, model_name, installed, analyses, today,
                   runs, active_tasks, cursor>>

\* one analyze_topic call at time t of date d on the tables rows, anl and
\* st: the tables it leaves, what it found and what it returns
TopicRun(rows, anl, st, topic, plan, d, t) ==
    LET relevant_news == search_news(rows, topic, TopicSearchLimit, plan.search)
        analysis == call_llm(plan.llm)
        keywords == extract_keywords(analysis, plan.kw)
        row == AnalysisRow(anl, topic, analysis, keywords, relevant_news, t)
    IN  [analyses |-> IF plan.raiseAt \in {"generate", "insert"} THEN anl
                      ELSE Append(anl, row),
         stats |-> IF plan.raiseAt = "none"
                   THEN StatsReplace(st, d, "analyses_made",
                            StatsGet(st, d, "analyses_made") + 1)
                   ELSE st,
         found |-> Len(relevant_news),
         context |-> PromptContext(relevant_news),
         result |-> IF plan.raiseAt = "none"
                    THEN TopicResult(topic, analysis, keywords, relevant_news, t)
                    ELSE TopicFailure(topic, plan.raiseAt, t)]

analyze_topic ==
    /\ Ready
    /\ \E topic \in Topics, plan \in TopicPlans :
        LET r == TopicRun(news, analyses, stats, topic, plan, today, now + 1)
        IN  /\ analyses' = r.analyses
            /\ stats' = r.stats
            /\ last' = [op |-> "analyze_topic", at |-> now + 1, date |-> today,
                        topic |-> topic, plan |-> plan,
                        found |-> r.found, context |-> r.context,
                        raised |-> plan.raiseAt # "none",
                        result |-> r.result]
    /\ now' = now + 1
    /\ UNCHANGED <<proc, agent, model_name, installed, news, today,
                   runs, active_tasks, cursor>>

\* GET /api/status
api_status ==
    /\ Serving /\ now < MaxClock
    /\ last' = [op |-> "api_status",
                response |-> IF ~agent
                             THEN [success |-> FALSE, agent_available |-> FALSE,
                                   demo_mode |-> TRUE]
                             ELSE [success |-> TRUE, agent_available |-> TRUE,
                                   demo_mode |-> FALSE]]
    /\ now' = now + 1
    /\ UNCHANGED <<proc, agent, model_name, installed, news, analyses, stats, today,
                   runs, active_tasks, cursor>>

\* midnight passes
NextDay ==
    /\ Serving /\ now < MaxClock
    /\ today < MaxDay
    /\ today' = today + 1
    /\ now' = now + 1
    /\ UNCHANGED <<proc, agent, model_name, installed, news, analyses, stats, last,
                   runs, active_tasks, cursor>>

\* ------------------------------------------------------------ search API
Queries == {<<>>, <<"ai">>, <<"Putin">>}
SearchLimits == {-1, 0, 1, 50, 51, 100}

\* a caller of the agent's search_news method (the front ends, line 886)
SearchDirect ==
    /\ Serving /\ agent
    /\ \E q \in Queries, limit \in SearchLimits, fails \in BOOLEAN :
        last' = [op |-> "search_news", query |-> q, limit |-> limit,
                 fails |-> fails,
                 results |-> search_news(news, q, limit, fails)]
    /\ UNCHANGED <<proc, agent, model_name, installed, news, analyses, stats, today, now,
                   runs, active_tasks, cursor>>

\* the two fixed articles of the demo branch
demo_results ==
    <<[title |-> <<"primer", "iskusstvennyi intellekt", "medicina">>,
       content |-> <<"body60">>, summary |-> <<"proryv">>, source |-> "Demo",
       url |-> <<"#">>, category |-> "tehnologii", keywords |-> NULL,
       published |-> 0],
      [title |-> <<"primer", "ekonomika">>,
       content |-> <<"body60">>, summary |-> <<"ekonomika">>, source |-> "Demo2",
       url |-> <<"#">>, category |-> "ekonomika", keywords |-> NULL,
       published |-> 0]>>

DemoFiltered(q) ==
    SelectSeq(demo_results,
              LAMBDA d : \/ q = <<>>
                         \/ Occurs(PyLower(q), PyLower(d.title))
                         \/ Occurs(PyLower(q), PyLower(<<d.category>>)))

\* GET /api/search?q=..&limit=..
api_search ==
    /\ Serving
    /\ \E q \in Queries, arg \in SearchLimits :
        LET limit == ApiSearchLimit(arg)
            results == IF agent THEN search_news(news, q, limit, FALSE)
                       ELSE SubSeq(DemoFiltered(q), 1,
                                   PySliceEnd(Len(DemoFiltered(q)), limit))
        IN  last' = [op |-> "api_search", query |-> q, limit |-> arg,
                     results |-> results]
    /\ UNCHANGED <<proc, agent, model_name, installed, news, analyses, stats, today, now,
                   runs, active_tasks, cursor>>

\* the store a process finds when earlier runs have collected n articles
PrefillEntry(i) ==
    Entry(<<ToString(i)>>, IF i % 2 = 0 THEN <<"AI">> ELSE <<"Putin">>,
          <<"body60">>, 1 + (i % 3))

RECURSIVE Prefill(_)
Prefill(n) ==
    IF n = 0 THEN <<>>
    ELSE LET rows == Prefill(n - 1)
         IN  Append(rows, NewRow(rows, PrefillEntry(n), rss_sources[1 + (n % 4)], 0))

StoreSizes == {0, 1, SearchCeiling, SearchCeiling + 1, MaxStored}

InitSearch ==
    /\ proc = "running"
    /\ agent \in BOOLEAN
    /\ news \in {Prefill(n) : n \in StoreSizes}
    /\ analyses = <<>>
    /\ stats = <<>>
    /\ today = 1
    /\ now = 0
    /\ last = NoCall
    /\ model_name = IF agent THEN DefaultModel ELSE NoModel
    /\ installed = <<DefaultModel>>
    /\ runs = NoRuns
    /\ active_tasks = <<>>
    /\ cursor = <<>>

NextSearch ==
    \/ SearchDirect
    \/ api_search

SpecSearch == InitSearch /\ [][NextSearch]_vars

\* ----------------------------------------------------------- startup runs
\* the lists of models a service may advertise when the process starts
MaxModels == 4
ModelLists == UNION {[1..n -> ModelNames] : n \in 0..MaxModels}

InitStartup ==
    /\ proc = "starting"
    /\ agent = FALSE
    /\ news = <<>>
    /\ analyses = <<>>
    /\ stats = <<>>
    /\ today = 1
    /\ now = 0
    /\ last = NoCall
    /\ model_name = NoModel
    /\ installed \in ModelLists
    /\ runs = NoRuns
    /\ active_tasks = <<>>
    /\ cursor = <<>>

NextStartup ==
    \/ init_agent
    \/ api_status

SpecStartup == InitStartup /\ [][NextStartup]_vars

\* -------------------------------------------------------- classifier calls
\* titles, source names and categories the two classifier methods are
\* called with
SampleTitles ==
    {<<"Putin">>, <<"AI">>, <<"x">>, <<"untitled">>, <<"rossii">>,
     <<"krizis", " ", "putin">>, <<"proryv", " ", "nauka">>, <<>>}
SampleSources == Range(rss_sources) \cup {"Demo"}
SampleCategories == Range(Categories) \cup {DefaultCategory, "other"}

SampleTexts ==
    SampleTitles \cup {<<"rossii", " ", "Putin">>, <<"sport", " ", "Nauka">>,
                       <<"Nauka", " ", "krizis", " ", "AI">>, <<"body60">>}

\* a call of _categorize_text
CategorizeCall ==
    /\ \E text \in SampleTexts :
        last' = [op |-> "categorize_text", text |-> text,
                 category |-> categorize_text(text)]
    /\ UNCHANGED <<proc, agent, model_name, installed, news, analyses, stats, today, now,
                   runs, active_tasks, cursor>>

\* a call of _calculate_importance
ImportanceCall ==
    /\ \E title \in SampleTitles, source \in SampleSources,
          category \in SampleCategories :
        last' = [op |-> "calculate_importance", title |-> title,
                 source |-> source, category |-> category,
                 importance |-> calculate_importance(title, source, category)]
    /\ UNCHANGED <<proc, agent, model_name, installed, news, analyses, stats, today, now,
                   runs, active_tasks, cursor>>

NextClassify ==
    \/ CategorizeCall
    \/ ImportanceCall

SpecClassify == Init /\ [][NextClassify]_vars

\* ------------------------------------------------- overlapping enrichment
\* Two agents opened on the same database file run analyze_news_articles and
\* their statements interleave. Each has its own connection: news is the
\* committed table, a run that has executed an UPDATE holds the write lock
\* and sees its own uncommitted table in view until it commits.
EnrichStoreSizes == {1, 2, 3}

Other(r) == CHOOSE o \in Runs : o # r

\* the other connection is inside a write transaction
Locked(r) == runs[Other(r)].kind = "enrich" /\ runs[Other(r)].writing

\* lines 434-447: the SELECT, fetchall and the early return
EnrichSelect(r) ==
    /\ Serving /\ agent
    /\ runs[r].kind = "none"
    /\ \E limit \in EnrichLimits :
        LET articles == SelectUnanalyzed(news, limit)
        IN  runs' = [runs EXCEPT ![r] =
                [kind |-> "enrich",
                 pc |-> IF articles = <<>> THEN "done" ELSE "loop",
                 limit |-> limit, articles |-> articles, p |-> 1,
                 done |-> <<>>, writing |-> FALSE, view |-> <<>>]]
    /\ UNCHANGED <<proc, agent, model_name, installed, news, analyses, stats,
                   today, now, last, active_tasks, cursor>>

\* lines 453-485: one pass of the loop body. The UPDATE names the row by id
\* alone; while the other connection holds the write lock it ends in
\* "database is locked", which the except clause of the article absorbs
EnrichArticle(r) ==
    /\ runs[r].kind = "enrich" /\ runs[r].pc = "loop"
    /\ LET run == runs[r]
           id == run.articles[run.p]
           table == IF run.writing THEN run.view ELSE news
           next == IF run.p = Len(run.articles) THEN "commit" ELSE "loop"
       IN  \E plan \in ArticlePlans :
            IF plan.raises \/ Locked(r)
            THEN runs' = [runs EXCEPT ![r].p = run.p + 1, ![r].pc = next]
            ELSE runs' = [runs EXCEPT ![r].p = run.p + 1, ![r].pc = next,
                                      ![r].writing = TRUE,
                                      ![r].view = UpdateAnalyzed(table, id, plan, now + 1),
                                      ![r].done = Append(run.done, id)]
    /\ now' = now + 1
    /\ UNCHANGED <<proc, agent, model_name, installed, news, analyses, stats,
                   today, last, active_tasks, cursor>>

\* line 487: self.conn.commit()
EnrichCommit(r) ==
    /\ runs[r].kind = "enrich" /\ runs[r].pc = "commit"
    /\ news' = IF runs[r].writing THEN runs[r].view ELSE news
    /\ runs' = [runs EXCEPT ![r].pc = "stats", ![r].writing = FALSE, ![r].view = <<>>]
    /\ UNCHANGED <<proc, agent, model_name, installed, analyses, stats,
                   today, now, last, active_tasks, cursor>>

\* lines 489-495: the counter statement and its commit; it is outside every
\* try block, so "database is locked" leaves the method
EnrichStats(r) ==
    /\ runs[r].kind = "enrich" /\ runs[r].pc = "stats"
    /\ IF Locked(r)
       THEN /\ runs' = [runs EXCEPT ![r].pc = "raised"]
            /\ UNCHANGED stats
       ELSE /\ runs' = [runs EXCEPT ![r].pc = "done"]
            /\ stats' = StatsReplace(stats, today, "news_analyzed",
                    StatsGet(stats, today, "news_analyzed") + Len(runs[r].done))
    /\ UNCHANGED <<proc, agent, model_name, installed, news, analyses,
                   today, now, last, active_tasks, cursor>>

InitEnrich ==
    /\ proc = "running"
    /\ agent = TRUE
    /\ news \in {Prefill(n) : n \in EnrichStoreSizes}
    /\ analyses = <<>>
    /\ stats = <<>>
    /\ today = 1
    /\ now = 0
    /\ last = NoCall
    /\ model_name = DefaultModel
    /\ installed = <<DefaultModel>>
    /\ runs = NoRuns
    /\ active_tasks = <<>>
    /\ cursor = <<>>

NextEnrich ==
    \/ \E r \in Runs : EnrichSelect(r)
    \/ \E r \in Runs : EnrichArticle(r)
    \/ \E r \in Runs : EnrichCommit(r)
    \/ \E r \in Runs : EnrichStats(r)

SpecEnrich == InitEnrich /\ [][NextEnrich]_vars

\* ------------------------------------------------------ background tasks
\* The worker threads app.py starts for POST /api/collect and POST
\* /api/analyze. They share the agent, hence its connection and its one
\* cursor, and the dict active_tasks; a statement of one worker can run
\* between any two statements of the other.

\* what the sources serve while the tasks run
TaskFeed == <<Src(<<EntPutin, EntAI>>, 0), Src(<<EntPutin>>, 0),
              Src(<<>>, -1), Src(<<EntPlain>>, 1)>>

TaskLimits == {1, 2}

\* the plans of the analyze_topic call of a worker
TaskTopicPlans == {TopicPlan(FALSE, "text", "text", "none"),
                   TopicPlan(FALSE, "text", "text", "generate")}

\* f"collect_{datetime.now().timestamp()}", f"analyze_{...}": the kind and
\* the clock reading
TaskId(kind, ts) == <<kind, ts>>

\* active_tasks[task_id] = record
TaskPut(tasks, id, record) ==
    [x \in (DOMAIN tasks) \cup {id} |-> IF x = id THEN record ELSE tasks[x]]

\* the first invocation that has not been started
FreeRun(r) == runs[r].kind = "none" /\ \A o \in Runs : o < r => runs[o].kind # "none"

\* a worker is inside a method of the agent
InCall(r) == runs[r].kind \in {"collect", "analyze"}
             /\ runs[r].pc \in {"source", "select", "fetch", "insert", "stats", "call"}

\* POST /api/collect (lines 198-240): the id is built from the clock, the
\* thread is started and the response carries the id; the thread has not
\* executed a statement yet
api_collect ==
    /\ Serving
    /\ IF ~agent
       THEN /\ last' = [op |-> "api_collect", success |-> FALSE, task_id |-> <<>>]
            /\ UNCHANGED <<runs, now>>
       ELSE \E r \in Runs, limit \in TaskLimits, dt \in {0, 1} :
            /\ FreeRun(r)
            /\ now' = now + dt
            /\ runs' = [runs EXCEPT ![r] =
                    [kind |-> "collect", pc |-> "spawned", id |-> TaskId("collect", now'),
                     arg |-> limit, s |-> 1, k |-> 1, total |-> 0, result |-> <<>>]]
            /\ last' = [op |-> "api_collect", success |-> TRUE,
                        task_id |-> TaskId("collect", now')]
    /\ UNCHANGED <<proc, agent, model_name, installed, news, analyses, stats,
                   today, active_tasks, cursor>>

\* POST /api/analyze (lines 242-289)
api_analyze ==
    /\ Serving
    /\ IF ~agent
       THEN /\ last' = [op |-> "api_analyze", success |-> FALSE, task_id |-> <<>>]
            /\ UNCHANGED <<runs, now>>
       ELSE \E topic \in Topics \cup {<<>>} :
            IF topic = <<>>
            THEN /\ last' = [op |-> "api_analyze", success |-> FALSE, task_id |-> <<>>]
                 /\ UNCHANGED <<runs, now>>
            ELSE \E r \in Runs, dt \in {0, 1} :
                 /\ FreeRun(r)
                 /\ now' = now + dt
                 /\ runs' = [runs EXCEPT ![r] =
                        [kind |-> "analyze", pc |-> "spawned", id |-> TaskId("analyze", now'),
                         arg |-> topic, s |-> 1, k |-> 1, total |-> 0, result |-> <<>>]]
                 /\ last' = [op |-> "api_analyze", success |-> TRUE,
                             task_id |-> TaskId("analyze", now')]
    /\ UNCHANGED <<proc, agent, model_name, installed, news, analyses, stats,
                   today, active_tasks, cursor>>

\* lines 217 and 266: the first statement of the worker
TaskStart(r) ==
    /\ runs[r].kind \in {"collect", "analyze"} /\ runs[r].pc = "spawned"
    /\ active_tasks' = TaskPut(active_tasks, runs[r].id,
                               [status |-> "running", progress |-> 0])
    /\ runs' = [runs EXCEPT ![r].pc = IF runs[r].kind = "collect" THEN "source"
                                      ELSE "call"]
    /\ UNCHANGED <<proc, agent, model_name, installed, news, analyses, stats,
                   today, now, last, cursor>>

\* collect_news, lines 349-357 and 404-408: the head of the loop over the
\* sources, feedparser.parse and the test for an empty feed; after the last
\* source, the commit
CollectSource(r) ==
    /\ runs[r].kind = "collect" /\ runs[r].pc = "source"
    /\ LET s == runs[r].s
       IN  runs' = IF s > Len(rss_sources) THEN [runs EXCEPT ![r].pc = "stats"]
                   ELSE IF TaskFeed[s].raiseAt = -1 \/ TaskFeed[s].entries = <<>>
                        THEN [runs EXCEPT ![r].s = s + 1]
                   ELSE [runs EXCEPT ![r].pc = "select", ![r].k = 1]
    /\ UNCHANGED <<proc, agent, model_name, installed, news, analyses, stats,
                   today, now, last, active_tasks, cursor>>

\* lines 361-371: the head of the loop over the entries, the hash and
\* self.cursor.execute("SELECT id FROM news WHERE hash = ?")
CollectSelect(r) ==
    /\ runs[r].kind = "collect" /\ runs[r].pc = "select"
    /\ LET s == runs[r].s
           k == runs[r].k
           entries == TaskFeed[s].entries
       IN  IF k > PySliceEnd(Len(entries), runs[r].arg) \/ TaskFeed[s].raiseAt = k
           THEN /\ runs' = [runs EXCEPT ![r].pc = "source", ![r].s = s + 1]
                /\ UNCHANGED cursor
           ELSE /\ cursor' = SelectSeq([i \in DOMAIN news |-> news[i].id],
                                LAMBDA id : news[id].hash = EntryHash(entries[k]))
                /\ runs' = [runs EXCEPT ![r].pc = "fetch"]
    /\ UNCHANGED <<proc, agent, model_name, installed, news, analyses, stats,
                   today, now, last, active_tasks>>

\* line 372: self.cursor.fetchone() hands out the next row of the statement
\* the cursor executed last, whichever worker executed it
CollectFetch(r) ==
    /\ runs[r].kind = "collect" /\ runs[r].pc = "fetch"
    /\ IF cursor # <<>>
       THEN /\ cursor' = Tail(cursor)
            /\ runs' = [runs EXCEPT ![r].pc = "select", ![r].k = runs[r].k + 1]
       ELSE /\ runs' = [runs EXCEPT ![r].pc = "insert"]
            /\ UNCHANGED cursor
    /\ UNCHANGED <<proc, agent, model_name, installed, news, analyses, stats,
                   today, now, last, active_tasks>>

\* lines 375-404: the INSERT; the UNIQUE constraint on hash makes it raise,
\* which ends the source
CollectInsert(r) ==
    /\ runs[r].kind = "collect" /\ runs[r].pc = "insert"
    /\ LET s == runs[r].s
           row == NewRow(news, TaskFeed[s].entries[runs[r].k], rss_sources[s], now)
       IN  IF UniqueViolation(news, row.hash)
           THEN /\ runs' = [runs EXCEPT ![r].pc = "source", ![r].s = s + 1]
                /\ UNCHANGED news
           ELSE /\ news' = Append(news, row)
                /\ runs' = [runs EXCEPT ![r].pc = "select", ![r].k = runs[r].k + 1,
                                        ![r].total = runs[r].total + 1]
    /\ cursor' = <<>>
    /\ UNCHANGED <<proc, agent, model_name, installed, analyses, stats,
                   today, now, last, active_tasks>>

\* lines 410-417: the counter statement and its commit, outside every try
\* block. While the other worker is using the cursor the statement either
\* runs or raises sqlite3.ProgrammingError, which leaves collect_news
CollectStats(r) ==
    /\ runs[r].kind = "collect" /\ runs[r].pc = "stats"
    /\ \E raises \in {FALSE} \cup {InCall(Other(r))} :
        IF raises
        THEN /\ runs' = [runs EXCEPT ![r].pc = "raised"]
             /\ UNCHANGED <<stats, cursor>>
        ELSE /\ stats' = StatsReplace(stats, today, "news_collected",
                    StatsGet(stats, today, "news_collected") + runs[r].total)
             /\ cursor' = <<>>
             /\ runs' = [runs EXCEPT ![r].pc = "returned"]
    /\ UNCHANGED <<proc, agent, model_name, installed, news, analyses,
                   today, now, last, active_tasks>>

\* line 268: result = agent.analyze_topic(topic)
AnalyzeCall(r) ==
    /\ runs[r].kind = "analyze" /\ runs[r].pc = "call"
    /\ \E plan \in TaskTopicPlans :
        LET t == TopicRun(news, analyses, stats, runs[r].arg, plan, today, now)
        IN  /\ analyses' = t.analyses
            /\ stats' = t.stats
            /\ runs' = [runs EXCEPT ![r].pc = "returned", ![r].result = t.result]
    /\ cursor' = <<>>
    /\ UNCHANGED <<proc, agent, model_name, installed, news,
                   today, now, last, active_tasks>>

\* lines 220-224 and 269-273: the last statement of the worker
TaskFinish(r) ==
    /\ runs[r].kind \in {"collect", "analyze"} /\ runs[r].pc \in {"returned", "raised"}
    /\ active_tasks' = TaskPut(active_tasks, runs[r].id,
            IF runs[r].pc = "raised" THEN [status |-> "error", error |-> "exc"]
            ELSE IF runs[r].kind = "collect"
                 THEN [status |-> "completed", progress |-> 100]
            ELSE [status |-> "completed", result |-> runs[r].result])
    /\ runs' = [runs EXCEPT ![r].pc = "done"]
    /\ UNCHANGED <<proc, agent, model_name, installed, news, analyses, stats,
                   today, now, last, cursor>>

\* the ids the responses of /api/collect and /api/analyze have carried
ReturnedIds == {runs[r].id : r \in {x \in Runs : runs[x].kind \in {"collect", "analyze"}}}

\* an id no response has carried
UnknownId == TaskId("collect", 0)

\* GET /api/task/<task_id> (lines 395-408)
api_task_status ==
    /\ Serving
    /\ \E task_id \in ReturnedIds \cup {UnknownId} :
        last' = IF task_id \in DOMAIN active_tasks
                THEN [op |-> "api_task_status", task_id |-> task_id, code |-> 200,
                      success |-> TRUE, returned |-> task_id \in ReturnedIds,
                      status |-> active_tasks[task_id].status]
                ELSE [op |-> "api_task_status", task_id |-> task_id, code |-> 404,
                      success |-> FALSE, returned |-> task_id \in ReturnedIds,
                      status |-> ""]
    /\ UNCHANGED <<proc, agent, model_name, installed, news, analyses, stats,
                   today, now, runs, active_tasks, cursor>>

InitTasks ==
    /\ proc = "running"
    /\ agent \in BOOLEAN
    /\ news = <<>>
    /\ analyses = <<>>
    /\ stats = <<>>
    /\ today = 1
    /\ now = 1
    /\ last = NoCall
    /\ model_name = IF agent THEN DefaultModel ELSE NoModel
    /\ installed = <<DefaultModel>>
    /\ runs = NoRuns
    /\ active_tasks = <<>>
    /\ cursor = <<>>

NextTasks ==
    \/ api_collect
    \/ api_analyze
    \/ api_task_status
    \/ \E r \in Runs : TaskStart(r)
    \/ \E r \in Runs : CollectSource(r)
    \/ \E r \in Runs : CollectSelect(r)
    \/ \E r \in Runs : CollectFetch(r)
    \/ \E r \in Runs : CollectInsert(r)
    \/ \E r \in Runs : CollectStats(r)
    \/ \E r \in Runs : AnalyzeCall(r)
    \/ \E r \in Runs : TaskFinish(r)

SpecTasks == InitTasks /\ [][NextTasks]_vars

Next ==
    \/ init_agent
    \/ collect_news
    \/ analyze_news_articles
    \/ analyze_topic
    \/ api_status
    \/ NextDay

Spec == Init /\ [][Next]_vars

\* =================================================================== claims
\* the loop of collect_news reaches entry k of source s
Offered(feed, limit, s, k) ==
    /\ feed[s].raiseAt # -1
    /\ k \in 1..PySliceEnd(Len(feed[s].entries), limit)
    /\ feed[s].raiseAt = 0 \/ k < feed[s].raiseAt

\* source s raises during the run
SourceRaises(feed, limit, s) ==
    \/ feed[s].raiseAt = -1
    \/ feed[s].raiseAt \in 1..PySliceEnd(Len(feed[s].entries), limit)

\* C1: when collect_news runs directly after a collect_news run with the same
\* feed snapshot and the same limit, it inserts no article and the number of
\* stored articles does not change.
IdempotentCollect ==
    [][(/\ last.op = "collect_news"
        /\ last'.op = "collect_news"
        /\ last'.at = now'
        /\ last'.feed = last.feed
        /\ last'.limit = last.limit)
       => (last'.total_collected = 0 /\ Len(news') = Len(news))]_vars

IdempotentCollectWitness ==
    /\ last.op = "collect_news"
    /\ last.repeat
    /\ \E i \in DOMAIN news : news[i].collected_at < last.at

\* C2: no two stored rows come from feed entries with the same link and the
\* same title, whatever the sources and the runs that offered them.
DedupCorrect ==
    \A i, j \in DOMAIN news : i # j => news[i].entry # news[j].entry

DedupCorrectWitness ==
    /\ last.op = "collect_news"
    /\ \E s1, s2 \in DOMAIN last.feed :
        \E k1 \in DOMAIN last.feed[s1].entries, k2 \in DOMAIN last.feed[s2].entries :
            /\ s1 < s2
            /\ Offered(last.feed, last.limit, s1, k1)
            /\ Offered(last.feed, last.limit, s2, k2)
            /\ EntryHash(last.feed[s1].entries[k1]) = EntryHash(last.feed[s2].entries[k2])
            /\ \E i \in DOMAIN news :
                /\ news[i].hash = EntryHash(last.feed[s1].entries[k1])
                /\ news[i].collected_at = last.at

\* C3: a counter of a date never decreases and its row never disappears,
\* whichever pipeline runs.
CountersAppendOnly ==
    [][\A d \in DOMAIN stats :
          /\ d \in DOMAIN stats'
          /\ stats'[d].news_collected >= stats[d].news_collected
          /\ stats'[d].news_analyzed >= stats[d].news_analyzed
          /\ stats'[d].analyses_made >= stats[d].analyses_made]_vars

\* C4: an article that has analyzed_at set keeps its analyzed_at, summary and
\* keywords in every later step, and the articles an enrichment run selects
\* all have analyzed_at NULL when the run starts.
EnrichOnce ==
    [][/\ \A i \in DOMAIN news :
            news[i].analyzed_at # NoTime
            => /\ news'[i].analyzed_at = news[i].analyzed_at
               /\ news'[i].summary = news[i].summary
               /\ news'[i].keywords = news[i].keywords
       /\ (last'.op = "analyze_news_articles" /\ last'.at = now')
          => \A k \in DOMAIN last'.articles :
                news[last'.articles[k]].analyzed_at = NoTime]_vars

EnrichOnceWitness ==
    /\ last.op = "analyze_news_articles"
    /\ last.analyzed # <<>>
    /\ \E i \in DOMAIN news : news[i].analyzed_at \notin {NoTime, last.at}

\* C5: analyze_topic always hands a dict with topic, success and timestamp
\* to its caller, and when an exception reached the handler of its try
\* block, the dict has success False and an error message.
TopicAlwaysReturns ==
    last.op = "analyze_topic"
    => /\ {"topic", "success", "timestamp"} \subseteq last.result.keys
       /\ last.result.topic = last.topic
       /\ last.result.timestamp = last.at
       /\ last.raised
          => /\ last.result.success = FALSE
             /\ "error" \in last.result.keys
             /\ last.result.error # ""

TopicAlwaysReturnsWitness ==
    /\ last.op = "analyze_topic"
    /\ last.plan.raiseAt = "stats"
    /\ last.result.success = FALSE
    /\ analyses # <<>>

\* C6: a collect_news run visits every configured source in order, stores
\* every entry its loop reaches in a source (up to the point where that
\* source raises), and updates the counter of its date, also when a source
\* raises.
PartialFailureIsolation ==
    last.op = "collect_news"
    => /\ last.visited = [s \in 1..Len(rss_sources) |-> s]
       /\ \A s \in DOMAIN last.feed : \A k \in DOMAIN last.feed[s].entries :
             Offered(last.feed, last.limit, s, k)
             => HashStored(news, EntryHash(last.feed[s].entries[k]))
       /\ last.date \in DOMAIN stats
       /\ stats[last.date].news_collected >= last.total_collected

PartialFailureIsolationWitness ==
    /\ last.op = "collect_news"
    /\ \E s1, s2 \in DOMAIN last.feed :
        /\ s1 < s2
        /\ SourceRaises(last.feed, last.limit, s1)
        /\ \E i \in DOMAIN news :
            /\ news[i].collected_at = last.at
            /\ news[i].source = rss_sources[s2]

\* C7: calculate_importance yields a value between 0.0 and 1.0 for every
\* title, source name and category, and every stored article has its
\* importance in that range.

ImportanceInRange ==
    \A title \in SampleTitles, source \in SampleSources,
       category \in SampleCategories :
        calculate_importance(title, source, category) \in 0..10

ImportanceClamp ==
    /\ ImportanceInRange
    /\ \A i \in DOMAIN news : news[i].importance \in 0..10

ImportanceClampWitness ==
    \E i \in DOMAIN news :
        /\ news[i].importance = 10
        /\ ImportanceSum(news[i].title, news[i].source, news[i].category) > 10

\* C8: when the inference service refuses the connection at startup, the
\* web process keeps running without an agent (demo mode).
DemoModeWhenUnreachable ==
    (last.op = "init_agent" /\ last.outcome = "conn_error")
    => (proc = "running" /\ ~agent)

\* C9: a search returns at most 50 articles, whatever limit the caller gives.
SearchCeilingHolds ==
    last.op \in {"search_news", "api_search"}
    => Len(last.results) <= SearchCeiling

\* C10: the article count stored with an analysis and the count in the
\* returned dict equal the number of articles rendered into the context.
Rendered(context) ==
    Cardinality({k \in DOMAIN context : context[k].line = "title"})

CountIsRenderedCount ==
    (last.op = "analyze_topic" /\ last.result.success)
    => /\ last.result.relevant_news_count = Rendered(last.context)
       /\ analyses[Len(analyses)].sources_used = Rendered(last.context)

\* the family of a model name: the part before the colon
Family(name) ==
    CASE name \in {"llama3.1:8b", "llama3.1:70b"} -> "llama3.1"
      [] name = "mistral:7b" -> "mistral"
      [] name = "qwen2:7b" -> "qwen2"
      [] name = "gemma2:9b" -> "gemma2"
      [] OTHER -> name

\* C11: when the service advertises models and the configured model is not
\* among them, the agent uses the first advertised model of the configured
\* model's family, wherever it stands in the list, and the first advertised
\* model only when no advertised model is of that family.
ModelFallback ==
    (/\ last.op = "init_agent"
     /\ last.outcome = "ok"
     /\ installed # <<>>
     /\ DefaultModel \notin Range(installed))
    => LET same == {i \in DOMAIN installed : Family(installed[i]) = Family(DefaultModel)}
       IN  IF same # {}
           THEN model_name = installed[CHOOSE i \in same : \A j \in same : i <= j]
           ELSE model_name = installed[1]

\* the outcomes of a generation request that are failures of the call
LlmFailures == {"timeout", "http", "badjson", "null", "conn"}

CallLlmMarksFailures ==
    \A o \in LlmFailures : IsSentinel(call_llm(o))

\* C12: call_llm hands a string to its caller for every outcome of the
\* request, and for a timeout, a status other than 200, a body that cannot
\* be read as the expected JSON and a failed connection that string is one
\* of the bracketed error strings.
CallLlmNeverRaises ==
    /\ CallLlmMarksFailures
    /\ (last.op = "analyze_topic" /\ ~last.raised /\ last.plan.llm \in LlmFailures)
       => IsSentinel(last.result.analysis)

CallLlmNeverRaisesWitness ==
    /\ last.op = "analyze_topic"
    /\ last.plan.llm \in LlmFailures
    /\ last.result.success
    /\ IsSentinel(last.result.analysis)
    /\ IsSentinel(analyses[Len(analyses)].analysis)

\* C13: every stored article that has analyzed_at set has a summary and a
\* keywords value that are not NULL, and an article that has no analyzed_at
\* has neither: the three columns are written together.
EnrichedFieldsTogether ==
    \A i \in DOMAIN news :
        /\ news[i].analyzed_at # NoTime
           => (news[i].summary # NULL /\ news[i].keywords # NULL)
        /\ news[i].analyzed_at = NoTime
           => (news[i].summary = NULL /\ news[i].keywords = NULL)

EnrichedFieldsTogetherWitness ==
    /\ \E i \in DOMAIN news :
        /\ news[i].analyzed_at # NoTime
        /\ news[i].keywords = <<>>
        /\ news[i].summary # NULL
    /\ \E i \in DOMAIN news : news[i].analyzed_at = NoTime

\* C14: no two stored articles have the same url and the same title.
OneRowPerUrlAndTitle ==
    \A i, j \in DOMAIN news :
        i # j => ~(news[i].url = news[j].url /\ news[i].title = news[j].title)

\* C15: after a run of collect_news, of analyze_news_articles or of a
\* successful analyze_topic, the stats table has a row for the date of the
\* run, also when the run found nothing to do.
CountersUpsertedEveryRun ==
    (\/ last.op \in {"collect_news", "analyze_news_articles"}
     \/ last.op = "analyze_topic" /\ last.result.success)
    => last.date \in DOMAIN stats

\* C16: a collect_news run leaves news_collected of its date at the value
\* it had before the run (0 without a row) plus the number of articles the
\* run inserted.
CollectedCounterDelta ==
    [][(last'.op = "collect_news" /\ last'.at = now')
       => /\ today \in DOMAIN stats'
          /\ stats'[today].news_collected =
                 StatsGet(stats, today, "news_collected") + (Len(news') - Len(news))
          /\ last'.total_collected = Len(news') - Len(news)]_vars

CollectedCounterDeltaWitness ==
    /\ last.op = "collect_news"
    /\ last.total_collected > 0
    /\ stats[last.date].news_collected > last.total_collected
    /\ \E s \in DOMAIN last.feed : SourceRaises(last.feed, last.limit, s)

\* C17: an analyze_news_articles run raises news_analyzed of its date by
\* the number of articles whose analyzed_at it set, and an article whose
\* handling raised keeps analyzed_at NULL and is not counted.
EnrichedCounterDelta ==
    [][(last'.op = "analyze_news_articles" /\ last'.at = now')
       => LET set == {i \in DOMAIN news : /\ news[i].analyzed_at = NoTime
                                          /\ news'[i].analyzed_at # NoTime}
          IN  /\ StatsGet(stats', today, "news_analyzed") =
                     StatsGet(stats, today, "news_analyzed") + Cardinality(set)
              /\ Range(last'.analyzed) = set
              /\ \A k \in DOMAIN last'.articles :
                     last'.articles[k] \notin set
                     => news'[last'.articles[k]] = news[last'.articles[k]]]_vars

EnrichedCounterDeltaWitness ==
    /\ last.op = "analyze_news_articles"
    /\ last.analyzed # <<>>
    /\ Len(last.analyzed) < Len(last.articles)
    /\ stats[last.date].news_analyzed > Len(last.analyzed)

\* the query occurs in one of the four columns, compared without case
CaseInsensitiveMatch(r, q) ==
    LET has(col) == col # NULL /\ Occurs(PyLower(q), PyLower(col))
    IN  has(r.title) \/ has(r.content) \/ has(<<r.category>>) \/ has(r.keywords)

\* C18: a search without an effective limit returns every stored article
\* that has the query, compared without regard to case, inside its title,
\* content, category or keywords.
SearchFindsEveryMatch ==
    (/\ last.op = "search_news"
     /\ ~last.fails
     /\ (last.limit < 0 \/ last.limit >= Len(news)))
    => \A i \in DOMAIN news :
          CaseInsensitiveMatch(news[i], last.query)
          => \E k \in DOMAIN last.results : last.results[k].url = news[i].url

\* C19: every analyze_topic call appends exactly one row to analyses, with
\* the topic as given, and adds 1 to analyses_made of its date; no step
\* changes or removes a row of analyses.
OneAnalysisPerInvocation ==
    [][/\ (last'.op = "analyze_topic" /\ last'.at = now')
          => /\ Len(analyses') = Len(analyses) + 1
             /\ analyses'[Len(analyses')].query = last'.topic
             /\ StatsGet(stats', today, "analyses_made") =
                    StatsGet(stats, today, "analyses_made") + 1
       /\ \A i \in DOMAIN analyses :
             i \in DOMAIN analyses' /\ analyses'[i] = analyses[i]]_vars

\* C20: an analyze_topic call that finds no article for its topic returns
\* success True, the count 0 and an analysis text that is not empty,
\* whatever the generation request is answered with.
NoMatchAnalysisNonEmpty ==
    (/\ last.op = "analyze_topic"
     /\ ~last.plan.search
     /\ ~last.raised
     /\ last.found = 0)
    => /\ last.result.success
       /\ last.result.relevant_news_count = 0
       /\ last.result.analysis # <<>>

\* C21: the context of the analysis prompt is never empty: without a search
\* result it is the no-relevant-news marker, and with results it holds, for
\* each of the first three in order, the indexed title line with the source,
\* directly followed by the summary line exactly when the result has a
\* summary.
ContextNeverEmpty ==
    last.op = "analyze_topic"
    => LET relevant == search_news(news, last.topic, TopicSearchLimit, last.plan.search)
           shown == Min(ContextArticles, Len(relevant))
           ctx == last.context
           titleAt(i) == CHOOSE k \in DOMAIN ctx :
                             ctx[k].line = "title" /\ ctx[k].index = i
       IN  /\ ctx # <<>>
           /\ Len(relevant) = last.found
           /\ last.found = 0 => ctx = NoRelevantNews
           /\ last.found > 0
              => /\ \A k \in DOMAIN ctx : ctx[k].line \in {"title", "summary"}
                 /\ {ctx[k].index : k \in DOMAIN ctx} = 1..shown
                 /\ \A i \in 1..shown :
                       /\ Cardinality({k \in DOMAIN ctx : ctx[k].line = "title"
                                                         /\ ctx[k].index = i}) = 1
                       /\ ctx[titleAt(i)].title = relevant[i].title
                       /\ ctx[titleAt(i)].source = relevant[i].source
                       /\ i > 1 => titleAt(i - 1) < titleAt(i)
                       /\ IF HasSummary(relevant[i])
                          THEN /\ titleAt(i) < Len(ctx)
                               /\ ctx[titleAt(i) + 1] =
                                      [line |-> "summary", index |-> i,
                                       title |-> relevant[i].summary,
                                       source |-> relevant[i].source]
                          ELSE \A k \in DOMAIN ctx :
                                  ~(ctx[k].line = "summary" /\ ctx[k].index = i)

ContextNeverEmptyWitness ==
    /\ last.op = "analyze_topic"
    /\ last.found >= 2
    /\ \E k \in DOMAIN last.context : last.context[k].line = "summary"
    /\ \E i \in 1..Min(ContextArticles, last.found) :
          \A k \in DOMAIN last.context :
              ~(last.context[k].line = "summary" /\ last.context[k].index = i)

\* C24: when the handling of a selected article raises, that article's row
\* stays as it was, every other selected article is enriched, the articles
\* are taken in the order importance descending, published descending, and
\* the run still updates the counter of its date.
EnrichIsolation ==
    [][(last'.op = "analyze_news_articles" /\ last'.at = now'
        /\ last'.articles # <<>>)
       => LET arts == last'.articles
          IN  /\ \A k, l \in DOMAIN arts :
                     k < l => Before(news[arts[k]], news[arts[l]])
              /\ \A k \in DOMAIN arts :
                     IF k \in last'.raised
                     THEN news'[arts[k]] = news[arts[k]]
                     ELSE /\ news'[arts[k]].analyzed_at = last'.at
                          /\ news'[arts[k]].summary # NULL
                          /\ news'[arts[k]].keywords # NULL
              /\ last'.analyzed =
                     SelectSeq(arts, LAMBDA a : news'[a].analyzed_at = last'.at)
              /\ today \in DOMAIN stats'
              /\ stats'[today].news_analyzed =
                     StatsGet(stats, today, "news_analyzed") + Len(last'.analyzed)]_vars

EnrichIsolationWitness ==
    /\ last.op = "analyze_news_articles"
    /\ Len(last.articles) = 2
    /\ last.raised = {1}
    /\ news[last.articles[1]].analyzed_at = NoTime
    /\ news[last.articles[2]].analyzed_at = last.at
    /\ last.date \in DOMAIN stats
    /\ stats[last.date].news_analyzed >= 1

\* C30: an analyze_topic call whose generation request failed returns
\* success False and stores no analyses row that holds an error string as
\* its analysis text.
SuccessOnlyWithModelOutput ==
    /\ (last.op = "analyze_topic" /\ last.plan.llm \in LlmFailures)
       => last.result.success = FALSE
    /\ \A i \in DOMAIN analyses : ~IsSentinel(analyses[i].analysis)

\* C22: categorize_text returns the first category, in the order of the
\* table, that has a keyword inside the lower-cased text, and the default
\* category exactly when no category has one.
CategorizeFirstMatch ==
    last.op = "categorize_text"
    => LET lowered == PyLower(last.text)
           hits == {i \in DOMAIN Categories :
                       \E kw \in CategoryKeywords(Categories[i]) : Contains(lowered, kw)}
       IN  /\ (hits = {}) <=> (last.category = DefaultCategory)
           /\ hits # {}
              => last.category = Categories[CHOOSE i \in hits : \A j \in hits : i <= j]

CategorizeFirstMatchWitness ==
    /\ last.op = "categorize_text"
    /\ last.category = "politika"
    /\ Contains(PyLower(last.text), "krizis")
    /\ Contains(last.text, "putin")

\* C23: calculate_importance is min(1.0, source weight + bonus + category
\* weight), with 0.5 for a source and 0 for a category that is not listed
\* and a bonus of 0.2 when the title holds one or more important words.
ImportanceFormula ==
    last.op = "calculate_importance"
    => LET found == {w \in important_words : Contains(PyLower(last.title), w)}
           bonus == IF found = {} THEN 0 ELSE 2
           sw == IF last.source \in Range(rss_sources)
                 THEN SourceWeight(last.source) ELSE 5
           cw == IF last.category \in {"politika", "ekonomika", "tehnologii", "nauka"}
                 THEN CategoryWeight(last.category) ELSE 0
       IN  last.importance = Min(10, sw + bonus + cw)

ImportanceFormulaWitness ==
    /\ last.op = "calculate_importance"
    /\ Cardinality({w \in important_words : Contains(PyLower(last.title), w)}) = 2
    /\ last.source = "Demo"
    /\ last.category = "other"
    /\ last.importance = 7

\* C25: the agent is constructed only when the model list was obtained: a
\* refused connection, another request error and a status other than 200
\* from the model-list endpoint all end the construction.
StartupFatalWhenUnusable ==
    (last.op = "init_agent"
     /\ last.outcome \in {"conn_error", "other_error", "http_error"})
    => ~agent

\* the articles a run has updated
EnrichedBy(r) == IF runs[r].kind = "enrich" THEN Range(runs[r].done) ELSE {}

\* C26: when two enrich invocations overlap, both selecting before either
\* writes, no article is enriched by both of them
NoDoubleEnrichment ==
    EnrichedBy(1) \cap EnrichedBy(2) = {}

\* the two collect tasks have both ended with the task status "completed"
BothCollected ==
    \A r \in Runs : runs[r].kind = "collect" /\ runs[r].pc = "done"
                    /\ active_tasks[runs[r].id].status = "completed"

\* C27: when two collect tasks started through /api/collect run at the same
\* time on the shared connection and cursor, no two rows have the same hash,
\* and once both have finished every entry the feeds offered to one of them
\* is stored.
CollectOverlapSafe ==
    /\ \A i, j \in DOMAIN news : news[i].hash = news[j].hash => i = j
    /\ BothCollected =>
        \A r \in Runs, s \in DOMAIN TaskFeed, k \in 1..2 :
            Offered(TaskFeed, runs[r].arg, s, k)
                => HashStored(news, EntryHash(TaskFeed[s].entries[k]))

TerminalStatus == {"completed", "error"}

\* C28: a task entry is recorded as running and then moves once to completed
\* or error; an entry that holds completed or error never changes again.
TerminalIsFinal ==
    [][\A id \in DOMAIN active_tasks :
        active_tasks[id].status \in TerminalStatus
            => active_tasks'[id] = active_tasks[id]]_vars

\* C29: a status query for a task id that a response has carried finds the
\* task, and two tasks never have the same id.
ReturnedTaskIsFound ==
    /\ last.op = "api_task_status" /\ last.returned => last.success
    /\ \A r, o \in Runs :
        runs[r].kind \in {"collect", "analyze"} /\ runs[o].kind \in {"collect", "analyze"}
        /\ runs[r].id = runs[o].id => r = o

====
